---- MODULE Spec2Model ----
(***************************************************************************)
(* WindNewsMapper backend: the news scraper (app/scraper.py), the two      *)
(* tables (app/models.py) and the HTTP handlers (app/api/routes.py).       *)
(*                                                                         *)
(* Python's None, SQL NULL and JSON null are the string NULL; a key that   *)
(* a JSON body or an HTML element does not have is the string MISSING.     *)
(* Dates are ISO strings, ordered through DateKey.  The server-set         *)
(* timestamps (created_at, updated_at, scraped_at) and the columns no      *)
(* handler writes (content, summary, wind_farm_name, location) are left    *)
(* out of the rows: no handler reads them back into a decision.            *)
(***************************************************************************)
EXTENDS Integers, Sequences, FiniteSets, TLC

NULL == "NULL"
MISSING == "MISSING"

\* Bounds of the model.
MaxPage == 2
MaxBatch == 2
MaxFarms == 2
NumProcs == 2
MaxLimit == 2

Min(a, b) == IF a < b THEN a ELSE b

(***************************************************************************)
(* app/scraper.py                                                          *)
(***************************************************************************)

\* self.sources: the three listing pages, in the order scrape_all reads them.
sources ==
  [ gramwzielone    |-> "https://www.gramwzielone.pl/energia-wiatrowa",
    wysokienapiecie |-> "https://wysokienapiecie.pl/category/energia-wiatrowa/",
    wnp             |-> "https://www.wnp.pl/oze/" ]

Sites == {"gramwzielone", "wysokienapiecie", "wnp"}

\* find_all(..., limit=10)
FindAllLimit == 10

\* The elements a listing page may hold, as the extractors see them:
\*   heading    an h2/h3 is found in the element
\*   link       the first <a>'s href: an absolute URL, a relative path,
\*              NULL (an <a> without href) or MISSING (no <a>)
\*   inHeading  the <a> sits inside the heading
\*   text       the stripped text of the heading / link
\*   time       the <time> element's datetime or text, MISSING without one
\*   raises     walking the element raises (a malformed node)
Elements ==
  { [heading |-> TRUE,  link |-> "https://a.pl/1", inHeading |-> TRUE,
     text |-> "t1", time |-> "2024-03-15T10:00:00Z", raises |-> FALSE],
    [heading |-> FALSE, link |-> "/oze/2", inHeading |-> FALSE,
     text |-> "t2", time |-> "15.03.2024", raises |-> FALSE],
    [heading |-> TRUE,  link |-> NULL, inHeading |-> FALSE,
     text |-> "t3", time |-> "not-a-date", raises |-> FALSE],
    [heading |-> TRUE,  link |-> MISSING, inHeading |-> FALSE,
     text |-> "t4", time |-> MISSING, raises |-> TRUE] }

SeqsUpTo(S, n) == UNION { [1..k -> S] : k \in 0..n }

\* What requests.get + raise_for_status gives for one site: the page's
\* matching elements, or FetchFailed (network error, timeout, non-2xx).
Pages == SeqsUpTo(Elements, MaxPage)
FetchFailed == [ok |-> FALSE, page |-> << >>]
SiteResults == {[ok |-> TRUE, page |-> p] : p \in Pages} \cup {FetchFailed}

\* datetime.fromisoformat(date_str.replace('Z', '+00:00')), then the formats
\* %Y-%m-%d, %d-%m-%Y, %d.%m.%Y; None when nothing parses.
_parse_date(date_str) ==
  IF date_str \in {"", NULL, MISSING} THEN NULL
  ELSE CASE date_str = "2024-03-15T10:00:00Z" -> "2024-03-15T10:00:00+00:00"
         [] date_str = "2024-03-14"           -> "2024-03-14T00:00:00"
         [] date_str = "15.03.2024"           -> "2024-03-15T00:00:00"
         [] OTHER                             -> NULL

\* The dict an extractor appends.
Record(title, url, source, published_date) ==
  [title |-> title, url |-> url, source |-> source,
   published_date |-> published_date, category |-> "news"]

\* Outcomes of one pass of an extractor's loop body.
Raised == [kind |-> "raise"]
Skipped == [kind |-> "skip"]
Appended(r) == [kind |-> "append", record |-> r]

\* One pass of the loop body of scrape_gramwzielone over element e: it
\* raises (caught by the inner try), the if fails, or a record is appended.
ItemGramwzielone(e) ==
  IF e.raises THEN Raised
  ELSE IF e.heading /\ e.link # MISSING
       THEN Appended(Record(e.text, e.link, "gramwzielone.pl",
                   IF e.time # MISSING THEN _parse_date(e.time) ELSE NULL))
       ELSE Skipped

ItemWysokienapiecie(e) ==
  IF e.raises THEN Raised
  ELSE IF e.heading /\ e.inHeading /\ e.link # MISSING
       THEN Appended(Record(e.text, e.link, "wysokienapiecie.pl",
                   IF e.time # MISSING THEN _parse_date(e.time) ELSE NULL))
       ELSE Skipped

StartsWithHttp(url) == url \in {"https://a.pl/1"}

\* url.startswith on None raises AttributeError inside the inner try.
ItemWnp(e) ==
  IF e.raises THEN Raised
  ELSE IF e.link # MISSING
       THEN IF e.link = NULL THEN Raised
            ELSE Appended(Record(e.text,
                        IF StartsWithHttp(e.link) THEN e.link
                        ELSE "https://www.wnp.pl" \o e.link,
                        "wnp.pl", NULL))
       ELSE Skipped

Item(site, e) ==
  CASE site = "gramwzielone"    -> ItemGramwzielone(e)
    [] site = "wysokienapiecie" -> ItemWysokienapiecie(e)
    [] site = "wnp"             -> ItemWnp(e)

\* The same loop without the inner try/except: the first item that raises
\* ends it, and the records before it are what the extractor has.
RECURSIVE ExtractLoopAbort(_, _, _)
ExtractLoopAbort(site, elems, articles) ==
  IF elems = << >> THEN articles
  ELSE LET r == Item(site, Head(elems))
       IN  IF r.kind = "raise" THEN articles
           ELSE ExtractLoopAbort(site, Tail(elems),
                                 IF r.kind = "append" THEN Append(articles, r.record)
                                 ELSE articles)

\* The for loop of an extractor over the elements found, with the inner
\* try/except: an item that raises is logged and the loop continues.
RECURSIVE ExtractLoop(_, _, _)
ExtractLoop(site, elems, articles) ==
  IF elems = << >> THEN articles
  ELSE LET r == Item(site, Head(elems))
       IN  ExtractLoop(site, Tail(elems),
                       IF r.kind = "append" THEN Append(articles, r.record)
                       ELSE articles)

\* An extractor: the outer try/except turns a failed fetch into [].
Extract(site, result) ==
  IF ~result.ok THEN << >>
  ELSE ExtractLoop(site, SubSeq(result.page, 1, Min(FindAllLimit, Len(result.page))),
                   << >>)

scrape_gramwzielone(result) == Extract("gramwzielone", result)
scrape_wysokienapiecie(result) == Extract("wysokienapiecie", result)
scrape_wnp(result) == Extract("wnp", result)

\* scrape_all on a web that answers web[site] to each fetch.
scrape_all(web) ==
  scrape_gramwzielone(web.gramwzielone)
    \o scrape_wysokienapiecie(web.wysokienapiecie)
    \o scrape_wnp(web.wnp)

(***************************************************************************)
(* app/models.py: the two tables and the session                          *)
(***************************************************************************)

\* A DateTime column keeps a naive timestamp: the UTC offset of an aware
\* datetime is dropped on the way in.
ToTimestamp(d) ==
  CASE d = "2024-03-15T10:00:00+00:00" -> "2024-03-15T10:00:00"
    [] OTHER                           -> d

\* ORDER BY published_date DESC on PostgreSQL (the DATABASE_URL default):
\* NULL sorts as larger than every value, so it comes first.
DateKey(d) ==
  CASE d = NULL                  -> 3
    [] d = "2024-03-15T10:00:00" -> 2
    [] d = "2024-03-15T00:00:00" -> 1
    [] OTHER                     -> 0

\* ORDER BY name: the strings of the model in collation order.
NameKey(n) ==
  CASE n = "Aquilo"  -> 1
    [] n = "Baltica" -> 2
    [] OTHER         -> 0

\* NewsArticle(title=..., url=..., source=..., published_date=...,
\* category=..., scraped_at=...) as scrape_news builds it: the columns it
\* does not set stay NULL.
NewsArticle(article_data) ==
  [title          |-> article_data.title,
   url            |-> article_data.url,
   source         |-> article_data.source,
   published_date |-> ToTimestamp(article_data.published_date),
   category       |-> article_data.category,
   latitude       |-> NULL,
   longitude      |-> NULL]

\* id = Column(Integer, primary_key=True): the next value of the table's
\* sequence (no handler deletes, so the rows are numbered 1..Len).
WithId(row, table) == [id |-> Len(table) + 1] @@ row

\* title, url: nullable=False
NewsNotNull(row) == row.title # NULL /\ row.url # NULL

\* url = Column(String(1000), nullable=False, unique=True)
UniqueUrl(row, table) == \A k \in DOMAIN table : table[k].url # row.url

\* name, location, latitude, longitude: nullable=False
FarmNotNull(row) ==
  /\ row.name # NULL
  /\ row.location # NULL
  /\ row.latitude # NULL
  /\ row.longitude # NULL

\* The flush of a session's pending NewsArticle objects, in the order they
\* were added: each INSERT is checked against the rows committed by others
\* and those this transaction has inserted. ok = FALSE is IntegrityError,
\* with table the rows as the failing statement found them.
RECURSIVE FlushNews(_, _)
FlushNews(pending, table) ==
  IF pending = << >> THEN [ok |-> TRUE, table |-> table]
  ELSE LET row == Head(pending)
       IN  IF NewsNotNull(row) /\ UniqueUrl(row, table)
           THEN FlushNews(Tail(pending), Append(table, WithId(row, table)))
           ELSE [ok |-> FALSE, table |-> table]

\* A commit after each INSERT: the rows before the failing one stay.
CommitNewsPerRecord(pending, table) == FlushNews(pending, table)

\* db.commit() of scrape_news: autocommit=False, so the flush and the
\* COMMIT are one transaction; when the flush raises, get_db's finally
\* closes the session, which rolls the transaction back.
CommitNews(pending, table) ==
  LET f == FlushNews(pending, table)
  IN  IF f.ok THEN f ELSE [ok |-> FALSE, table |-> table]

\* db.add(wind_farm); db.commit()
CommitFarm(row, table) ==
  IF FarmNotNull(row)
  THEN [ok |-> TRUE, table |-> Append(table, WithId(row, table))]
  ELSE [ok |-> FALSE, table |-> table]

\* What sqlalchemy.orm.Session, the class SessionLocal() instantiates,
\* offers of the names the handlers use on db: it has no attribute func.
SessionAttributes == {"query", "add", "commit", "refresh", "close"}

\* The orders a query may return its rows in, keys[i] being row i's place
\* under ORDER BY (all equal without one): every arrangement in which the
\* keys do not decrease. Rows with equal keys come in an order the
\* database is free to choose on each execution.
Arrangements(keys) ==
  { s \in [1..Len(keys) -> 1..Len(keys)] :
      /\ \A i, j \in 1..Len(keys) : i # j => s[i] # s[j]
      /\ \A i, j \in 1..Len(keys) : i < j => keys[s[i]] <= keys[s[j]] }

Arrange(rows, s) == [i \in 1..Len(rows) |-> rows[s[i]]]

\* .offset(skip).limit(limit)
OffsetLimit(rows, skip, limit) ==
  SubSeq(rows, skip + 1, Min(Len(rows), skip + limit))

(***************************************************************************)
(* app/api/routes.py: each handler as a function of its request and the    *)
(* committed tables.  A response is [status, body]; an exception no        *)
(* handler catches leaves FastAPI answering 500.                           *)
(***************************************************************************)

Ok(body) == [status |-> 200, body |-> body]
NotFound(detail) == [status |-> 404, body |-> [detail |-> detail]]
ServerError(exception) == [status |-> 500, body |-> [exception |-> exception]]

\* if category: / if status:
Truthy(x) == x \notin {NULL, ""}

\* farm_data.get(key), whatever the default
GetNone(farm_data, key, default) ==
  IF farm_data[key] = MISSING THEN NULL ELSE farm_data[key]

\* farm_data.get(key, default)
Get(farm_data, key, default) ==
  IF farm_data[key] = MISSING THEN default ELSE farm_data[key]

RequiredKeys == {"name", "location", "latitude", "longitude"}

\* create_wind_farm: farm_data[key] raises KeyError for a key the body
\* lacks. Gives the response and the wind_farms table after it.
create_wind_farm(farm_data, wind_farms) ==
  IF \E key \in RequiredKeys : farm_data[key] = MISSING
  THEN [response |-> ServerError("KeyError"), wind_farms |-> wind_farms]
  ELSE LET wind_farm ==
             [name        |-> farm_data["name"],
              location    |-> farm_data["location"],
              latitude    |-> farm_data["latitude"],
              longitude   |-> farm_data["longitude"],
              capacity_mw |-> Get(farm_data, "capacity_mw", NULL),
              status      |-> Get(farm_data, "status", "planned"),
              operator    |-> Get(farm_data, "operator", NULL),
              description |-> Get(farm_data, "description", NULL)]
           c == CommitFarm(wind_farm, wind_farms)
       IN  IF c.ok
           THEN [response |-> Ok(c.table[Len(c.table)]), wind_farms |-> c.table]
           ELSE [response |-> ServerError("IntegrityError"),
                 wind_farms |-> wind_farms]

\* get_wind_farm_by_id
get_wind_farm_by_id(farm_id, wind_farms) ==
  LET found == SelectSeq(wind_farms, LAMBDA f : f.id = farm_id)
  IN  IF found = << >> THEN NotFound("Wind farm not found")
      ELSE Ok(Head(found))

\* get_news_by_id
get_news_by_id(article_id, news_articles) ==
  LET found == SelectSeq(news_articles, LAMBDA a : a.id = article_id)
  IN  IF found = << >> THEN NotFound("Article not found")
      ELSE Ok(Head(found))

\* get_wind_farms: the responses the query's possible row orders give.
get_wind_farms(limit, skip, status, wind_farms) ==
  LET rows == IF Truthy(status)
              THEN SelectSeq(wind_farms, LAMBDA f : f.status = status)
              ELSE wind_farms
      keys == [i \in 1..Len(rows) |-> NameKey(rows[i].name)]
  IN  { Ok(OffsetLimit(Arrange(rows, s), skip, limit)) : s \in Arrangements(keys) }

\* get_news: ORDER BY published_date DESC.
get_news(limit, skip, category, news_articles) ==
  LET rows == IF Truthy(category)
              THEN SelectSeq(news_articles, LAMBDA a : a.category = category)
              ELSE news_articles
      keys == [i \in 1..Len(rows) |-> 0 - DateKey(rows[i].published_date)]
  IN  { Ok(OffsetLimit(Arrange(rows, s), skip, limit)) : s \in Arrangements(keys) }

\* .limit(50) of get_map_data
MapNewsLimit == 50

\* The query without its filter.
HasLocationOff(a) == TRUE

\* NewsArticle.latitude.isnot(None), NewsArticle.longitude.isnot(None)
HasLocation(a) == a.latitude # NULL /\ a.longitude # NULL

\* get_map_data: db.query(WindFarm).all() has no ORDER BY.
get_map_data(wind_farms, news_articles) ==
  LET located == SelectSeq(news_articles, HasLocation)
      nkeys == [i \in 1..Len(located) |-> 0 - DateKey(located[i].published_date)]
      fkeys == [i \in 1..Len(wind_farms) |-> 0]
  IN  { Ok([wind_farms |-> Arrange(wind_farms, f),
            news_locations |-> OffsetLimit(Arrange(located, n), 0, MapNewsLimit)]) :
          f \in Arrangements(fkeys), n \in Arrangements(nkeys) }

\* float(capacity_mw)
CapacityValue(c) ==
  CASE c = "10.0" -> 10
    [] c = "20.0" -> 20
    [] OTHER      -> 0

RECURSIVE SumCapacity(_)
SumCapacity(rows) ==
  IF rows = << >> THEN 0
  ELSE CapacityValue(Head(rows).capacity_mw) + SumCapacity(Tail(rows))

\* get_statistics: the four counts are queried, then the arguments of
\* with_entities are evaluated, and db.func raises AttributeError.
get_statistics(wind_farms, news_articles) ==
  LET total_farms == Len(wind_farms)
      total_news == Len(news_articles)
      operational_farms ==
        Len(SelectSeq(wind_farms, LAMBDA f : f.status = "operational"))
      planned_farms ==
        Len(SelectSeq(wind_farms, LAMBDA f : f.status = "planned"))
      total_capacity ==
        SumCapacity(SelectSeq(wind_farms, LAMBDA f : f.capacity_mw # NULL))
  IN  IF "func" \in SessionAttributes
      THEN Ok([total_wind_farms    |-> total_farms,
               operational_farms   |-> operational_farms,
               planned_farms       |-> planned_farms,
               total_capacity_mw   |-> total_capacity,
               total_news_articles |-> total_news])
      ELSE ServerError("AttributeError")

\* One pass of scrape_news's for loop, on the rows committed at the time
\* of its query. autoflush=False: the query does not see the session's
\* own pending objects.
LoopBody(article_data, news_articles, session) ==
  LET existing == \E k \in DOMAIN news_articles :
                    news_articles[k].url = article_data.url
  IN  IF ~existing
      THEN [pending     |-> Append(session.pending, NewsArticle(article_data)),
            saved_count |-> session.saved_count + 1]
      ELSE session

NewSession == [pending |-> << >>, saved_count |-> 0]

RECURSIVE ScrapeLoop(_, _, _)
ScrapeLoop(articles, news_articles, session) ==
  IF articles = << >> THEN session
  ELSE ScrapeLoop(Tail(articles), news_articles,
                  LoopBody(Head(articles), news_articles, session))

\* db.commit() and the return of scrape_news: the response, and the
\* committed table as the commit leaves it.
ScrapeCommit(articles, session, news_articles) ==
  LET c == CommitNews(session.pending, news_articles)
  IN  IF c.ok
      THEN [response |-> Ok([message |-> "News scraping completed",
                             total_scraped |-> Len(articles),
                             new_articles_saved |-> session.saved_count]),
            news_articles |-> c.table]
      ELSE [response |-> ServerError("IntegrityError"),
            news_articles |-> c.table]

\* scrape_news with no other request between its queries and its commit.
scrape_news(articles, news_articles) ==
  ScrapeCommit(articles, ScrapeLoop(articles, news_articles, NewSession),
               news_articles)

(***************************************************************************)
(* The inputs                                                              *)
(***************************************************************************)

\* What the three sites answer to one scrape_news request: at most
\* MaxBatch elements over the three pages.
RequestWebs ==
  { w \in [Sites -> {r \in SiteResults : Len(r.page) <= MaxBatch}] :
      Len(w.gramwzielone.page) + Len(w.wysokienapiecie.page) + Len(w.wnp.page)
        <= MaxBatch }

\* What scraper.scrape_all() returns to scrape_news over those answers.
Batches == { scrape_all(w) : w \in RequestWebs }

\* The listings wnp shows while several workers scrape at once, the other
\* two sites being unreachable: a story with an absolute link, one with a
\* relative link, both in either order, or one of them shown twice.
WnpListings ==
  LET story == CHOOSE e \in Elements : e.link = "https://a.pl/1"
      brief == CHOOSE e \in Elements : e.link = "/oze/2"
  IN  { << >>, <<story>>, <<brief>>, <<story, brief>>, <<brief, story>>,
        <<brief, brief>> }

WnpBatches ==
  { scrape_all([gramwzielone |-> FetchFailed, wysokienapiecie |-> FetchFailed,
                wnp |-> [ok |-> TRUE, page |-> l]]) : l \in WnpListings }

\* JSON bodies of POST /wind-farms: the three that hold every required key
\* with a value, then one required key left out or null.
Baltica ==
  [ name |-> "Baltica", location |-> "Baltic Sea", latitude |-> "55.0",
    longitude |-> "17.0", capacity_mw |-> MISSING, status |-> MISSING,
    operator |-> MISSING, description |-> MISSING ]

FarmInputs ==
  { Baltica,
    [Baltica EXCEPT !.capacity_mw = "10.0", !.status = "operational"],
    [Baltica EXCEPT !.name = "Aquilo", !.capacity_mw = "20.0"],
    [Baltica EXCEPT !.name = NULL] }
  \cup { [Baltica EXCEPT ![k] = MISSING] : k \in RequiredKeys }

StatusFilters == {NULL, "", "planned", "operational"}
CategoryFilters == {NULL, "", "news"}

Procs == 1..NumProcs

(***************************************************************************)
(* The state                                                               *)
(***************************************************************************)

VARIABLES
  wind_farms,    \* the committed rows of table wind_farms, in insertion order
  news_articles, \* the committed rows of table news_articles
  resp,          \* the last request served to completion and its response
  created,       \* history: the bodies POST /wind-farms answered 200 to
  scrape_log,    \* history: the batch of the last scrape_news request
  run,           \* per worker: the scrape_news request it is serving
  answers,       \* a scrape_all call: what the sites fetched so far answered
  fetched,       \* a scrape_all call: the URLs requested, in order
  all_articles,  \* a scrape_all call: all_articles
  spc            \* a scrape_all call: the statement it is at

storeVars == <<wind_farms, news_articles>>
apiVars == <<resp, created, scrape_log>>
scraperVars == <<answers, fetched, all_articles, spc>>
vars == <<wind_farms, news_articles, resp, created, scrape_log, run,
          answers, fetched, all_articles, spc>>

Idle == [pc |-> "idle", articles |-> << >>, i |-> 0, session |-> NewSession,
         response |-> [status |-> 0, body |-> [none |-> TRUE]]]

Init ==
  /\ wind_farms = << >>
  /\ news_articles = << >>
  /\ resp = [op |-> "none", req |-> [none |-> TRUE], status |-> 0,
             body |-> [none |-> TRUE]]
  /\ created = << >>
  /\ scrape_log = [articles |-> << >>, repeats |-> FALSE, previous |-> -1]
  /\ run = [p \in Procs |-> Idle]
  /\ answers = << >>
  /\ fetched = << >>
  /\ all_articles = << >>
  /\ spc = "gramwzielone"

Response(op, req, r) ==
  [op |-> op, req |-> req, status |-> r.status, body |-> r.body]

(***************************************************************************)
(* Requests served one at a time: every handler is an async def without    *)
(* an await, so within one worker a request runs to its response.          *)
(***************************************************************************)

\* POST /api/wind-farms
CreateWindFarm ==
  \E farm_data \in FarmInputs :
    LET r == create_wind_farm(farm_data, wind_farms)
    IN  /\ Len(r.wind_farms) <= MaxFarms
        /\ wind_farms' = r.wind_farms
        /\ resp' = Response("create_wind_farm",
                     [missing |-> {k \in RequiredKeys : farm_data[k] = MISSING},
                      null    |-> {k \in RequiredKeys : farm_data[k] = NULL},
                      farms_before |-> Len(wind_farms)],
                     r.response)
        /\ created' = IF r.response.status = 200
                      THEN Append(created, [farm_data |-> farm_data,
                                            body |-> r.response.body])
                      ELSE created
        /\ UNCHANGED <<news_articles, scrape_log, run, scraperVars>>

\* POST /api/news/scrape
Scrape(articles) ==
  LET r == scrape_news(articles, news_articles)
  IN  /\ news_articles' = r.news_articles
      /\ resp' = Response("scrape_news", [news_before |-> Len(news_articles)],
                          r.response)
      /\ UNCHANGED <<wind_farms, created, run, scraperVars>>

ScrapeNews ==
  \E articles \in Batches : Scrape(articles) /\ UNCHANGED scrape_log

\* GET /api/wind-farms
GetWindFarms ==
  \E limit \in 0..MaxLimit, skip \in 0..MaxLimit, status \in StatusFilters :
    \E r \in get_wind_farms(limit, skip, status, wind_farms) :
      /\ resp' = Response("get_wind_farms",
                   [limit |-> limit, skip |-> skip, filter |-> status], r)
      /\ UNCHANGED <<storeVars, created, scrape_log, run, scraperVars>>

\* GET /api/wind-farms/{farm_id}
GetWindFarmById ==
  \E farm_id \in 1..(MaxFarms + 1) :
    /\ resp' = Response("get_wind_farm_by_id", [id |-> farm_id],
                        get_wind_farm_by_id(farm_id, wind_farms))
    /\ UNCHANGED <<storeVars, created, scrape_log, run, scraperVars>>

\* GET /api/news
GetNews ==
  \E limit \in 0..MaxLimit, skip \in 0..MaxLimit, category \in CategoryFilters :
    \E r \in get_news(limit, skip, category, news_articles) :
      /\ resp' = Response("get_news",
                   [limit |-> limit, skip |-> skip, filter |-> category], r)
      /\ UNCHANGED <<storeVars, created, scrape_log, run, scraperVars>>

\* GET /api/news/{article_id}
GetNewsById ==
  \E article_id \in 1..(MaxBatch + 1) :
    /\ resp' = Response("get_news_by_id", [id |-> article_id],
                        get_news_by_id(article_id, news_articles))
    /\ UNCHANGED <<storeVars, created, scrape_log, run, scraperVars>>

\* GET /api/map-data
GetMapData ==
  \E r \in get_map_data(wind_farms, news_articles) :
    /\ resp' = Response("get_map_data", [none |-> TRUE], r)
    /\ UNCHANGED <<storeVars, created, scrape_log, run, scraperVars>>

\* GET /api/stats
GetStatistics ==
  /\ resp' = Response("get_statistics", [none |-> TRUE],
                      get_statistics(wind_farms, news_articles))
  /\ UNCHANGED <<storeVars, created, scrape_log, run, scraperVars>>

Next ==
  \/ CreateWindFarm
  \/ ScrapeNews
  \/ GetWindFarmById
  \/ GetNewsById
  \/ GetMapData
  \/ GetStatistics

Spec == Init /\ [][Next]_vars

\* The two writes and the two list endpoints.
NextList ==
  \/ CreateWindFarm
  \/ ScrapeNews
  \/ GetWindFarms
  \/ GetNews

SpecList == Init /\ [][NextList]_vars

\* POST /api/news/scrape, request after request, with the history of what
\* the scraper returned: repeats says that the request before this one
\* scraped the same batch, previous is the total_scraped that one reported
\* (-1 when it reported none).
ScrapeNewsLogged ==
  \E articles \in Batches :
    /\ Scrape(articles)
    /\ scrape_log' =
         [articles |-> articles,
          repeats  |-> resp.op = "scrape_news" /\ scrape_log.articles = articles,
          previous |-> IF resp.op = "scrape_news" /\ resp.status = 200
                       THEN resp.body.total_scraped ELSE -1]

NextIngest == ScrapeNewsLogged

SpecIngest == Init /\ [][NextIngest]_vars

(***************************************************************************)
(* scrape_news served by several workers at once: each query and the       *)
(* commit are one statement on the database, and the workers' statements   *)
(* interleave.                                                             *)
(***************************************************************************)

\* scraper.scrape_all(); saved_count = 0
ScrapeBegin(p) ==
  /\ run[p].pc \in {"idle", "done"}
  /\ \E articles \in WnpBatches :
       run' = [run EXCEPT ![p] = [pc |-> "loop", articles |-> articles, i |-> 1,
                                  session |-> NewSession,
                                  response |-> Idle.response]]
  /\ UNCHANGED <<storeVars, apiVars, scraperVars>>

\* One pass of the for loop: the exists query, and db.add when it finds none.
ScrapeCheck(p) ==
  /\ run[p].pc = "loop"
  /\ run[p].i <= Len(run[p].articles)
  /\ run' = [run EXCEPT
               ![p].session = LoopBody(run[p].articles[run[p].i], news_articles,
                                       run[p].session),
               ![p].i = run[p].i + 1]
  /\ UNCHANGED <<storeVars, apiVars, scraperVars>>

\* db.commit() and the response.
ScrapeEnd(p) ==
  /\ run[p].pc = "loop"
  /\ run[p].i > Len(run[p].articles)
  /\ LET r == ScrapeCommit(run[p].articles, run[p].session, news_articles)
     IN  /\ news_articles' = r.news_articles
         /\ run' = [run EXCEPT ![p].pc = "done",
                               ![p].i = 0,
                               ![p].session = NewSession,
                               ![p].response = r.response]
  /\ UNCHANGED <<wind_farms, apiVars, scraperVars>>

NextConcurrent == \E p \in Procs : ScrapeBegin(p) \/ ScrapeCheck(p) \/ ScrapeEnd(p)

SpecConcurrent == Init /\ [][NextConcurrent]_vars

(***************************************************************************)
(* scrape_all, statement by statement                                      *)
(***************************************************************************)

\* all_articles.extend(self.scrape_gramwzielone())
StepGramwzielone ==
  /\ spc = "gramwzielone"
  /\ \E result \in SiteResults :
       /\ answers' = Append(answers, result)
       /\ fetched' = Append(fetched, sources.gramwzielone)
       /\ all_articles' = all_articles \o scrape_gramwzielone(result)
  /\ spc' = "wysokienapiecie"
  /\ UNCHANGED <<storeVars, apiVars, run>>

\* all_articles.extend(self.scrape_wysokienapiecie())
StepWysokienapiecie ==
  /\ spc = "wysokienapiecie"
  /\ \E result \in SiteResults :
       /\ answers' = Append(answers, result)
       /\ fetched' = Append(fetched, sources.wysokienapiecie)
       /\ all_articles' = all_articles \o scrape_wysokienapiecie(result)
  /\ spc' = "wnp"
  /\ UNCHANGED <<storeVars, apiVars, run>>

\* all_articles.extend(self.scrape_wnp()); return all_articles
StepWnp ==
  /\ spc = "wnp"
  /\ \E result \in SiteResults :
       /\ answers' = Append(answers, result)
       /\ fetched' = Append(fetched, sources.wnp)
       /\ all_articles' = all_articles \o scrape_wnp(result)
  /\ spc' = "return"
  /\ UNCHANGED <<storeVars, apiVars, run>>

\* scrape_wind_news(): a new scraper and a new call.
NewScrape ==
  /\ spc = "return"
  /\ answers' = << >>
  /\ fetched' = << >>
  /\ all_articles' = << >>
  /\ spc' = "gramwzielone"
  /\ UNCHANGED <<storeVars, apiVars, run>>

NextScraper == StepGramwzielone \/ StepWysokienapiecie \/ StepWnp \/ NewScrape

SpecScraper == Init /\ [][NextScraper]_vars

(***************************************************************************)
(* Properties                                                              *)
(***************************************************************************)

Urls(articles) == { articles[k].url : k \in DOMAIN articles }
Stored(url) == { k \in DOMAIN news_articles : news_articles[k].url = url }
Ids(rows) == { rows[k].id : k \in DOMAIN rows }
Finished(p) == run[p].pc = "done"

\* No two committed news_articles rows hold the same url (unique=True).
NoDuplicateUrl ==
  \A j, k \in DOMAIN news_articles :
    j # k => news_articles[j].url # news_articles[k].url

\* C1: whatever the interleaving of the workers' exists-queries and
\* commits, the committed table never holds two rows with the same url,
\* and a url scraped by two runs is stored exactly once.
C1_UrlStoredExactlyOnce ==
  /\ NoDuplicateUrl
  /\ \A p, q \in Procs :
       (p # q /\ Finished(p) /\ Finished(q)) =>
         \A url \in Urls(run[p].articles) \cap Urls(run[q].articles) :
           Cardinality(Stored(url)) = 1

\* C2: a scrape_news request that follows one in which the scraper
\* returned the same batch answers 200 with new_articles_saved = 0 and the
\* total_scraped of the first, and leaves news_articles as it was.
C2_RepeatedRunSavesNothing ==
  (resp.op = "scrape_news" /\ scrape_log.repeats) =>
    /\ resp.status = 200
    /\ resp.body.new_articles_saved = 0
    /\ resp.body.total_scraped = scrape_log.previous
    /\ Len(news_articles) = resp.req.news_before

\* C3: every scrape_news request is answered 200 with total_scraped and
\* new_articles_saved, whatever the sites returned.
C3_ScrapeAlwaysSucceeds ==
  resp.op = "scrape_news" =>
    /\ resp.status = 200
    /\ resp.body.total_scraped = Len(scrape_log.articles)
    /\ resp.body.new_articles_saved \in 0..resp.body.total_scraped

\* C4: POST /wind-farms with a body that lacks name, location, latitude or
\* longitude is answered with a 4xx status and adds no row.
C4_MissingFieldIsClientError ==
  (resp.op = "create_wind_farm" /\ resp.req.missing # {}) =>
    /\ resp.status \in 400..499
    /\ Len(wind_farms) = resp.req.farms_before

\* What C5 says of the farms created so far: each is answered by GET
\* /wind-farms/{id} with the body POST gave, which carries every value of
\* the request and status "planned" where the request had none; no two
\* share an id.
CreatedAreRetrievable ==
  /\ \A k \in DOMAIN created :
       LET c == created[k]
           g == get_wind_farm_by_id(c.body.id, wind_farms)
       IN  /\ g.status = 200
           /\ g.body = c.body
           /\ \A key \in DOMAIN c.farm_data :
                c.farm_data[key] # MISSING => g.body[key] = c.farm_data[key]
           /\ c.farm_data.status = MISSING => g.body.status = "planned"
  /\ \A j, k \in DOMAIN created : j # k => created[j].body.id # created[k].body.id
  /\ (resp.op = "get_wind_farm_by_id" /\
      \E k \in DOMAIN created : created[k].body.id = resp.req.id) =>
       /\ resp.status = 200
       /\ \E k \in DOMAIN created : created[k].body = resp.body

CreateAnswersFreshId ==
  /\ resp.status = 200
  /\ resp.body.id \notin { wind_farms[k].id : k \in 1..resp.req.farms_before }

SameIds(a, b) == \E k \in DOMAIN a : \E l \in DOMAIN b : a[k].id = b[l].id

\* The step is the second of two calls of a list endpoint, skip=0,limit=N
\* then skip=N,limit=N, with the same filter.
NextPage(op) ==
  /\ resp.op = op
  /\ resp'.op = op
  /\ resp.req.skip = 0
  /\ resp.req.limit >= 1
  /\ resp'.req.limit = resp.req.limit
  /\ resp'.req.skip = resp.req.limit
  /\ resp'.req.filter = resp.req.filter

\* C6: a list endpoint returns at most limit rows, and the pages skip=0,
\* limit=N and skip=N,limit=N of an unchanged table share no row and make
\* up the first 2N rows of the filtered, ordered table.
C6_PagesPartition ==
  [][ /\ NextPage("get_wind_farms") =>
           /\ Len(resp.body) <= resp.req.limit
           /\ Len(resp'.body) <= resp.req.limit
           /\ ~SameIds(resp.body, resp'.body)
           /\ \E full \in get_wind_farms(2 * resp.req.limit, 0, resp.req.filter,
                                         wind_farms) :
                full.body = resp.body \o resp'.body
      /\ NextPage("get_news") =>
           /\ Len(resp.body) <= resp.req.limit
           /\ Len(resp'.body) <= resp.req.limit
           /\ ~SameIds(resp.body, resp'.body)
           /\ \E full \in get_news(2 * resp.req.limit, 0, resp.req.filter,
                                   news_articles) :
                full.body = resp.body \o resp'.body ]_vars

\* C7: GET /stats answers 200, and its total_capacity_mw is the sum of
\* capacity_mw over the farms that have one (0 when none has).
C7_StatisticsSumsCapacity ==
  resp.op = "get_statistics" =>
    /\ resp.status = 200
    /\ resp.body.total_capacity_mw =
         SumCapacity(SelectSeq(wind_farms, LAMBDA f : f.capacity_mw # NULL))

IsMapData(body) ==
  /\ Len(body.wind_farms) = Len(wind_farms)
  /\ \A k \in DOMAIN wind_farms :
       \E l \in DOMAIN body.wind_farms : body.wind_farms[l] = wind_farms[k]
  /\ Len(body.news_locations) <= MapNewsLimit
  /\ \A k \in DOMAIN body.news_locations :
       LET a == body.news_locations[k]
       IN  /\ \E l \in DOMAIN news_articles : news_articles[l] = a
           /\ a.latitude # NULL
           /\ a.longitude # NULL
  /\ \A j, k \in DOMAIN body.news_locations :
       j < k => DateKey(body.news_locations[j].published_date)
                  >= DateKey(body.news_locations[k].published_date)
  /\ LET located == { l \in DOMAIN news_articles :
                        /\ news_articles[l].latitude # NULL
                        /\ news_articles[l].longitude # NULL }
     IN  /\ Len(body.news_locations) = Min(MapNewsLimit, Cardinality(located))
         /\ \A l \in located :
              (\A k \in DOMAIN body.news_locations :
                 body.news_locations[k] # news_articles[l]) =>
                \A k \in DOMAIN body.news_locations :
                  DateKey(body.news_locations[k].published_date)
                    >= DateKey(news_articles[l].published_date)

SiteOrder == <<"gramwzielone", "wysokienapiecie", "wnp">>

\* The elements of a site's answer that yield a record.
Kept(k) ==
  { n \in 1..Min(FindAllLimit, Len(answers[k].page)) :
      Item(SiteOrder[k], answers[k].page[n]).kind = "append" }

\* The records of site k's answer, in page order; none when the fetch failed.
Records(k) ==
  IF ~answers[k].ok THEN << >>
  ELSE [ n \in 1..Cardinality(Kept(k)) |->
           LET at == CHOOSE m \in Kept(k) :
                       Cardinality({ j \in Kept(k) : j <= m }) = n
           IN  Item(SiteOrder[k], answers[k].page[at]).record ]

\* C9: when scrape_all returns it has fetched gramwzielone, wysokienapiecie
\* and wnp once each, in that order, and its result is the records of the
\* first in page order, then the second's, then the third's: a site whose
\* fetch failed gives none, and an element that raises is the only one lost.
C9_ScrapeAllConcatenates ==
  /\ Len(fetched) = Len(answers)
  /\ \A k \in DOMAIN fetched : fetched[k] = sources[SiteOrder[k]]
  /\ spc = "return" =>
       /\ Len(fetched) = 3
       /\ all_articles = Records(1) \o Records(2) \o Records(3)

\* scrape_all has returned: the first fetch failed, and another site's page
\* opened with an element that raised, followed by one that gave a record.
C9_Witness ==
  /\ spc = "return"
  /\ ~answers[1].ok
  /\ \E k \in 2..3 :
       /\ Len(answers[k].page) >= 2
       /\ Item(SiteOrder[k], answers[k].page[1]).kind = "raise"
       /\ Item(SiteOrder[k], answers[k].page[2]).kind = "append"
  /\ Len(all_articles) >= 1

\* C10: the step in which a run's commit ends leaves news_articles as it
\* was when the run is answered an error, and otherwise appends exactly
\* the new_articles_saved rows the run had added.
C10_CommitOncePerBatch ==
  [][ \A p \in Procs :
        (run[p].pc = "loop" /\ run'[p].pc = "done") =>
          IF run'[p].response.status = 200
          THEN /\ Len(news_articles') =
                    Len(news_articles) + run'[p].response.body.new_articles_saved
               /\ SubSeq(news_articles', 1, Len(news_articles)) = news_articles
               /\ \A k \in 1..Len(run[p].session.pending) :
                    news_articles'[Len(news_articles) + k].url =
                      run[p].session.pending[k].url
               /\ Len(run[p].session.pending) =
                    run'[p].response.body.new_articles_saved
          ELSE news_articles' = news_articles ]_vars

\* One run was answered 500 and a url of its batch is not stored, while
\* another run was answered 200 and stored what it counted.
C10_Witness ==
  \E p, q \in Procs :
    /\ Finished(p) /\ run[p].response.status = 500
    /\ \E url \in Urls(run[p].articles) : Stored(url) = {}
    /\ Finished(q) /\ run[q].response.status = 200
    /\ run[q].response.body.new_articles_saved >= 1
====
